---- MODULE Spec2Model ----
(***************************************************************************)
(* The schema-driven multi-section form of src/components/dynamic-form.tsx *)
(* (DynamicForm): the validator buildSchema compiles from the descriptor,  *)
(* the default answers, and the handlers handleNext, handlePrev, onSubmit  *)
(* and the field widgets' onChange over the state                          *)
(* {currentSectionIndex, values, errors}.                                  *)
(*                                                                         *)
(* Strings the user types are sequences of one-character strings, so that  *)
(* length and character-class rules are computed, not assumed.            *)
(*                                                                         *)
(* handleNext and onSubmit are async: each runs up to `await               *)
(* form.trigger(..)` (the validation reads the values at that point), and  *)
(* resumes later.  The part before the await is the ..Start action, the    *)
(* part after it the ..Finish action; `pending` holds the invocations that *)
(* are suspended at their await.  Under Spec the browser's event loop is   *)
(* followed: a promise continuation is a microtask and runs before the     *)
(* next user event is dispatched, so an event is dispatched only while     *)
(* nothing is pending (the actions' parameter `overlap` is FALSE).  The    *)
(* render that form.trigger's state update causes has run when the handler *)
(* resumes, so the form.formState.errors it reads is what trigger stored.  *)
(* The handlers are the engine's operations and may be invoked in any      *)
(* state (the rendered buttons restrict this further).                     *)
(***************************************************************************)
EXTENDS Integers, Sequences, FiniteSets, TLC

VARIABLES
    currentSectionIndex,  \* useState(0), dynamic-form.tsx:127
    values,               \* react-hook-form's field values (the AnswerMap)
    errors,               \* form.formState.errors: fieldId -> message, NoError if none
    toasts,               \* titles of the notifications requested so far
    sink,                 \* the AnswerMaps logged as 'Collected Form Data'
    pending,              \* handler invocations suspended at await form.trigger
    last,                 \* the handler that completed most recently
    runtime,              \* the browser: the local day and its Date parser
    probeSections,        \* the descriptor a probe hands to generateDefaultValues
    probeField,           \* the field descriptor a probe hands to buildSchema
    probe,                \* the pure function a probe applied last, and its result
    session,              \* sessionStorage's rollNumber, NoRollNumber if none
    route,                \* the page the router shows: "/" (login) or "/form"
    login,                \* LoginForm's state
    page                  \* FormPage's state

formVars == <<currentSectionIndex, values, errors, toasts, sink, pending, last>>

schemaVars == <<runtime, probeSections, probeField, probe>>

appVars == <<session, route, login, page>>

vars == <<formVars, schemaVars, appVars>>

\* Bounds of the model: notifications and submissions recorded per run.
MaxToasts == 2
MaxSubmits == 2

\* Bounds of the probes: sections per descriptor, fields per section, and the
\* largest minLength / maxLength of a field (typed text is one longer).
MaxSections == 2

\* Bound of the overlapping runs: handler invocations suspended at once.
MaxPending == 2
MaxFields == 2
MaxLength == 3

\* minLength / maxLength absent from a field descriptor (FormField.minLength?)
Undefined == -1

\* No entry for a field in formState.errors.
NoError == ""

(***************************************************************************)
(* The descriptor: three sections, mixed field types.                      *)
(***************************************************************************)
FormField(fieldId, type, label, required, minLength, maxLength, message) ==
    [fieldId |-> fieldId, type |-> type, label |-> label, required |-> required,
     minLength |-> minLength, maxLength |-> maxLength, message |-> message]

formStructure ==
    [formTitle |-> "Student Form",
     sections |-> <<
        [title |-> "Personal",
         fields |-> << FormField("name", "text", "Name", TRUE, 2, Undefined, ""),
                       FormField("agree", "checkbox", "Agree", TRUE,
                                 Undefined, Undefined, "You must agree") >>],
        [title |-> "Notes",
         fields |-> << FormField("notes", "textarea", "Notes", FALSE,
                                 Undefined, 2, "") >>],
        [title |-> "Contact",
         fields |-> << FormField("phone", "tel", "Phone", TRUE,
                                 Undefined, Undefined, "") >>] >>]

totalSections == Len(formStructure.sections)

SectionIndexes == 0 .. (totalSections - 1)

\* formStructure.sections[i], 0-based as in the source
SectionAt(i) == formStructure.sections[i + 1]

Range(s) == {s[i] : i \in 1 .. Len(s)}

SectionFields(i) == Range(SectionAt(i).fields)

SectionFieldIds(i) == {f.fieldId : f \in SectionFields(i)}

AllFields == UNION {SectionFields(i) : i \in SectionIndexes}

FieldIds == {f.fieldId : f \in AllFields}

FieldOf(id) == CHOOSE f \in AllFields : f.fieldId = id

(***************************************************************************)
(* buildSchema: the Zod schema of each field.  A schema is the chain the   *)
(* source builds: a ZodString carries its checks in the order they were    *)
(* added, .refine() wraps it in a ZodEffects, .optional() in a ZodOptional.*)
(***************************************************************************)
\* JavaScript's a || b on strings
OrElse(a, b) == IF a # "" THEN a ELSE b

\* z.string(), z.boolean(), z.any()
ZodType(typeName) ==
    [typeName |-> typeName, checks |-> <<>>, refinements |-> <<>>, optional |-> FALSE]

\* .min(n, {message})
ZodMin(schema, n, message) ==
    [schema EXCEPT !.checks =
        Append(@, [kind |-> "min", value |-> n, name |-> "", message |-> message])]

\* .max(n, {message})
ZodMax(schema, n, message) ==
    [schema EXCEPT !.checks =
        Append(@, [kind |-> "max", value |-> n, name |-> "", message |-> message])]

\* .regex(re, {message})
ZodRegex(schema, re, message) ==
    [schema EXCEPT !.checks =
        Append(@, [kind |-> "regex", value |-> 0, name |-> re, message |-> message])]

\* .refine(predicate, {message}): the result is a ZodEffects
ZodRefine(schema, predicate, message) ==
    [schema EXCEPT !.typeName = "ZodEffects",
                   !.refinements = Append(@, [kind |-> "refine", value |-> 0,
                                              name |-> predicate, message |-> message])]

\* .optional(): the result is a ZodOptional (undefined passes; any other value
\* is parsed by the wrapped schema)
ZodOptional(schema) == [schema EXCEPT !.typeName = "ZodOptional", !.optional = TRUE]

\* .optional().default(false)
ZodDefault(schema) == [schema EXCEPT !.typeName = "ZodDefault", !.optional = TRUE]

minLengthMessage(field) ==
    field.label \o " must be at least " \o ToString(field.minLength) \o " characters"

maxLengthMessage(field) ==
    field.label \o " cannot exceed " \o ToString(field.maxLength) \o " characters"

\* the required message without the descriptor's own message
requiredMessage_BuiltIn(field) == field.label \o " is required"

requiredMessage(field) == OrElse(field.message, field.label \o " is required")

\* the two length rules of text, textarea and tel
WithLengths(schema, field) ==
    LET s1 == IF field.minLength # Undefined
              THEN ZodMin(schema, field.minLength, minLengthMessage(field))
              ELSE schema
    IN  IF field.maxLength # Undefined
        THEN ZodMax(s1, field.maxLength, maxLengthMessage(field))
        ELSE s1

\* the switch on field.type
typeSchema(field) ==
    CASE field.type \in {"text", "textarea"} ->
            WithLengths(ZodType("ZodString"), field)
      [] field.type = "tel" ->
            WithLengths(ZodRegex(ZodType("ZodString"), "tel",
                                 OrElse(field.message, "Invalid phone number format")),
                        field)
      [] field.type = "email" ->
            ZodRegex(ZodType("ZodString"), "email",
                     OrElse(field.message, "Invalid email address"))
      [] field.type = "date" ->
            ZodRefine(ZodRegex(ZodType("ZodString"), "date",
                               OrElse(field.message, "Invalid date format (YYYY-MM-DD)")),
                      "notFuture",
                      OrElse(field.message, field.label \o " cannot be a future date"))
      [] field.type \in {"dropdown", "radio"} -> ZodType("ZodString")
      [] field.type = "checkbox" ->
            IF field.required
            THEN ZodRefine(ZodType("ZodBoolean"), "isTrue", requiredMessage(field))
            ELSE ZodDefault(ZodType("ZodBoolean"))
      [] OTHER -> ZodType("ZodAny")

\* the fields of all the sections, in the order the nested forEach visits them
RECURSIVE Flatten(_)
Flatten(secs) ==
    IF secs = <<>> THEN <<>> ELSE Head(secs).fields \o Flatten(Tail(secs))

\* the wrapping without its required branch
fieldSchema_NoRequired(field) ==
    LET s == typeSchema(field) IN
    IF ~field.required /\ field.type # "checkbox" /\ s.typeName \notin {"ZodOptional"}
    THEN ZodOptional(s)
    ELSE s

\* the required / optional wrapping after the switch
fieldSchema(field) ==
    LET s == typeSchema(field) IN
    IF field.required /\ field.type # "checkbox"
    THEN IF s.typeName = "ZodString"
         THEN ZodMin(s, 1, requiredMessage(field))
         ELSE ZodRefine(s, "notEmpty", requiredMessage(field))
    ELSE IF ~field.required /\ field.type # "checkbox"
         THEN IF s.typeName \notin {"ZodOptional"} THEN ZodOptional(s) ELSE s
         ELSE s

\* buildSchema(sections): schemaShape[field.fieldId] = fieldSchema, field by
\* field; a fieldId met again overwrites the entry
buildSchemaOf(secs) ==
    LET all == Flatten(secs)
        lastOf(id) == CHOOSE i \in 1 .. Len(all) :
                        all[i].fieldId = id /\ \A j \in (i + 1) .. Len(all) : all[j].fieldId # id
    IN  [id \in {all[i].fieldId : i \in 1 .. Len(all)} |-> fieldSchema(all[lastOf(id)])]

\* the schema of the form shown
buildSchema == buildSchemaOf(formStructure.sections)

validationSchema == buildSchema

(***************************************************************************)
(* Parsing a value with a schema.  Zod runs every check of a ZodString in  *)
(* the order it was added and then the refinements; the resolver keeps the *)
(* first issue of each field as its error.                                 *)
(***************************************************************************)
Digits == {"0", "1", "2", "3", "4", "5", "6", "7", "8", "9"}

\* /^[\d\s\-()+]*$/
TelChars == Digits \cup {" ", "-", "(", ")", "+"}

Letters ==
    {"a", "b", "c", "d", "e", "f", "g", "h", "i", "j", "k", "l", "m",
     "n", "o", "p", "q", "r", "s", "t", "u", "v", "w", "x", "y", "z",
     "A", "B", "C", "D", "E", "F", "G", "H", "I", "J", "K", "L", "M",
     "N", "O", "P", "Q", "R", "S", "T", "U", "V", "W", "X", "Y", "Z"}

\* the characters zod's email pattern admits before the @
EmailLocalChars == Letters \cup Digits \cup {"_", "'", "+", "-", "."}

\* z.string().email(): zod's pattern
\* /^(?!\.)(?!.*\.\.)([A-Z0-9_'+\-\.]*)[A-Z0-9_+-]@([A-Z0-9][A-Z0-9\-]*\.)+[A-Z]{2,}$/i
EmailMatches(v) ==
    LET ats == {i \in 1 .. Len(v) : v[i] = "@"}
    IN  /\ Cardinality(ats) = 1
        /\ LET p == CHOOSE i \in ats : TRUE
               local == SubSeq(v, 1, p - 1)
               domain == SubSeq(v, p + 1, Len(v))
               dots == {i \in 1 .. Len(domain) : domain[i] = "."}
           IN  /\ local # <<>>
               /\ \A i \in 1 .. Len(local) : local[i] \in EmailLocalChars
               /\ local[1] # "."
               /\ local[Len(local)] \notin {".", "'"}
               /\ \A i \in 1 .. (Len(v) - 1) : ~(v[i] = "." /\ v[i + 1] = ".")
               /\ dots # {}
               /\ LET lastDot == CHOOSE i \in dots : \A j \in dots : j <= i
                      tld == SubSeq(domain, lastDot + 1, Len(domain))
                  IN  /\ Len(tld) >= 2
                      /\ \A i \in 1 .. Len(tld) : tld[i] \in Letters
                      /\ \A i \in 1 .. lastDot :
                            domain[i] = "." => (i > 1 /\ domain[i - 1] # ".")
                      /\ \A i \in 1 .. (lastDot - 1) :
                            domain[i] # "." => domain[i] \in Letters \cup Digits \cup {"-"}
                      /\ \A i \in 1 .. (lastDot - 1) :
                            (i = 1 \/ domain[i - 1] = ".") => domain[i] \in Letters \cup Digits

\* /^\d{4}-\d{2}-\d{2}$/
DateFormatMatches(v) ==
    /\ Len(v) = 10
    /\ \A i \in 1 .. 10 : IF i \in {5, 8} THEN v[i] = "-" ELSE v[i] \in Digits

RegexMatches(re, v) ==
    CASE re = "tel" -> \A i \in 1 .. Len(v) : v[i] \in TelChars
      [] re = "email" -> EmailMatches(v)
      [] re = "date" -> DateFormatMatches(v)
      [] OTHER -> TRUE

(***************************************************************************)
(* Dates.  A day is <<year, month, day>>.  new Date("YYYY-MM-DD") reads    *)
(* the string as midnight UTC of that day; adding getTimezoneOffset() moves *)
(* it to local midnight of the same day, which is compared with            *)
(* startOfDay(new Date()), local midnight of today: the comparison is one  *)
(* of calendar days.  A month outside 01..12 or a day outside 01..31 gives *)
(* an Invalid Date.  A day of 29..31 that the month does not have is an    *)
(* illegal element value to ECMAScript: an engine returns an Invalid Date  *)
(* or, as V8 does, rolls the day over into the next month; runtime.rollover *)
(* is which of the two the browser does.                                   *)
(***************************************************************************)
DigitValue(c) == CHOOSE n \in 0 .. 9 : ToString(n) = c

RECURSIVE Number(_)
Number(s) ==
    IF s = <<>> THEN 0
    ELSE Number(SubSeq(s, 1, Len(s) - 1)) * 10 + DigitValue(s[Len(s)])

isLeapYear(y) == (y % 4 = 0 /\ y % 100 # 0) \/ y % 400 = 0

daysInMonth(y, m) ==
    CASE m = 2 -> IF isLeapYear(y) THEN 29 ELSE 28
      [] m \in {4, 6, 9, 11} -> 30
      [] OTHER -> 31

InvalidDate == <<0, 0, 0>>

\* the calendar day of new Date(dateStr) for a dateStr in YYYY-MM-DD form
ParseDate(dateStr) ==
    LET y == Number(SubSeq(dateStr, 1, 4))
        m == Number(SubSeq(dateStr, 6, 7))
        d == Number(SubSeq(dateStr, 9, 10))
    IN  IF m \notin 1 .. 12 \/ d \notin 1 .. 31 THEN InvalidDate
        ELSE IF d <= daysInMonth(y, m) THEN <<y, m, d>>
        ELSE IF runtime.rollover THEN <<y, m + 1, d - daysInMonth(y, m)>>
        ELSE InvalidDate

\* a < b on days: today itself counted as the future
DayLeq_Strict(a, b) ==
    \/ a[1] < b[1]
    \/ a[1] = b[1] /\ a[2] < b[2]
    \/ a[1] = b[1] /\ a[2] = b[2] /\ a[3] < b[3]

\* a <= b on days
DayLeq(a, b) ==
    \/ a[1] < b[1]
    \/ a[1] = b[1] /\ a[2] < b[2]
    \/ a[1] = b[1] /\ a[2] = b[2] /\ a[3] <= b[3]

\* const today = startOfDay(new Date()), taken when the schema is built
today == runtime.today

\* the refinement of a date field
notFuture(dateStr) ==
    /\ DateFormatMatches(dateStr)
    /\ LET adjustedInputDate == ParseDate(dateStr)
       IN  adjustedInputDate # InvalidDate /\ DayLeq(adjustedInputDate, today)

RefinementPasses(predicate, v) ==
    CASE predicate = "isTrue" -> v = TRUE
      [] predicate = "notEmpty" -> v # <<>>
      [] predicate = "notFuture" -> notFuture(v)
      [] OTHER -> TRUE

\* length bounds taken as exclusive
CheckPasses_Exclusive(check, v) ==
    CASE check.kind = "min" -> Len(v) > check.value
      [] check.kind = "max" -> Len(v) < check.value
      [] check.kind = "regex" -> RegexMatches(check.name, v)
      [] check.kind = "refine" -> RefinementPasses(check.name, v)

CheckPasses(check, v) ==
    CASE check.kind = "min" -> Len(v) >= check.value
      [] check.kind = "max" -> Len(v) <= check.value
      [] check.kind = "regex" -> RegexMatches(check.name, v)
      [] check.kind = "refine" -> RefinementPasses(check.name, v)

\* the last issue reported instead of the first
FirstIssue_Last(schema, v) ==
    LET rules == schema.checks \o schema.refinements
        failing == {i \in 1 .. Len(rules) : ~CheckPasses(rules[i], v)}
    IN  IF failing = {} THEN NoError
        ELSE rules[CHOOSE i \in failing : \A j \in failing : i >= j].message

\* the message of the first issue, NoError when the value passes
FirstIssue(schema, v) ==
    LET rules == schema.checks \o schema.refinements
        failing == {i \in 1 .. Len(rules) : ~CheckPasses(rules[i], v)}
    IN  IF failing = {} THEN NoError
        ELSE rules[CHOOSE i \in failing : \A j \in failing : i <= j].message

\* the messages of all the issues of a parse, in the order zod raises them
Issues(schema, v) ==
    LET rules == schema.checks \o schema.refinements
        failing == SelectSeq(rules, LAMBDA r : ~CheckPasses(r, v))
    IN  [i \in 1 .. Len(failing) |-> failing[i].message]

FieldError(id, v) == FirstIssue(validationSchema[id], v)

\* zodResolver(validationSchema) applied to the whole AnswerMap
resolver(vals) == [id \in FieldIds |-> FieldError(id, vals[id])]

FieldValid(id, vals) == FieldError(id, vals[id]) = NoError

SectionValid(i, vals) == \A id \in SectionFieldIds(i) : FieldValid(id, vals)

FormValid(vals) == \A id \in FieldIds : FieldValid(id, vals)

\* defaults[field.fieldId] = field.type === 'checkbox' ? false : '', field by field
RECURSIVE AssignDefaults(_, _)
AssignDefaults(fields, defaults) ==
    IF fields = <<>> THEN defaults
    ELSE AssignDefaults(Tail(fields),
            (Head(fields).fieldId :> (IF Head(fields).type = "checkbox" THEN FALSE ELSE <<>>))
                @@ defaults)

\* defaults taken from the first section only
generateDefaultValuesOf_FirstSection(secs) ==
    AssignDefaults(IF secs = <<>> THEN <<>> ELSE Head(secs).fields, <<>>)

\* generateDefaultValues over the sections of a descriptor
generateDefaultValuesOf(secs) == AssignDefaults(Flatten(secs), <<>>)

\* generateDefaultValues of the form shown
generateDefaultValues == generateDefaultValuesOf(formStructure.sections)

(***************************************************************************)
(* What the widgets of renderField can deliver to a field's onChange.      *)
(***************************************************************************)
TextInputs == {<<>>, <<"a">>, <<"a", "b">>, <<"a", "b", "c">>}

TextareaInputs == {<<>>, <<"a", "b", "c">>}

TelInputs == {<<>>, <<"7">>, <<"x">>}

WidgetInputs(field) ==
    CASE field.type = "checkbox" -> BOOLEAN
      [] field.type = "tel" -> TelInputs
      [] field.type = "textarea" -> TextareaInputs
      [] OTHER -> TextInputs

(***************************************************************************)
(* The form engine.                                                        *)
(***************************************************************************)
currentSection == SectionAt(currentSectionIndex)

isLastSection == currentSectionIndex = totalSections - 1

Idle == pending = <<>>

Completed(op, k, isValid) == [op |-> op, k |-> k, isValid |-> isValid]

\* useState(0); useForm({defaultValues}): no field has been evaluated yet
FormInit ==
    /\ currentSectionIndex = 0
    /\ values = generateDefaultValues
    /\ errors = [id \in FieldIds |-> NoError]
    /\ toasts = <<>>
    /\ sink = <<>>
    /\ pending = <<>>
    /\ last = Completed("none", 0, TRUE)

\* what a probe applied: op, the value it was applied to, the error the
\* resolver reports (or the defaults generated) and all the issues zod raised
Probed(op, value, result, issues) ==
    [op |-> op, value |-> value, result |-> result, issues |-> issues]

NoProbe == Probed("none", <<>>, NoError, <<>>)

\* the browser the form runs in
Browser(day, rollover) == [today |-> day, rollover |-> rollover]

(***************************************************************************)
(* The application around the engine: the login form (LoginForm), the form *)
(* page (FormPage) and the two API calls createUser and getForm.  An HTTP  *)
(* exchange is the record of what fetch produced: a rejected request, or a *)
(* status with a body that is JSON or not.  Of a JSON body only what the   *)
(* code inspects is kept.                                                  *)
(***************************************************************************)
\* response.ok
Ok(status) == status \in 200..299

\* what an async function produced: a resolved value or a thrown Error
Resolved(value) == [threw |-> FALSE, value |-> value, message |-> ""]

Thrown(message) == [threw |-> TRUE, value |-> FALSE, message |-> message]

\* the exchanges of POST /create-user; message is the body's `message`
CreateUserResponse(kind, status, message) ==
    [kind |-> kind, status |-> status, message |-> message]

CreateUserResponses ==
    { CreateUserResponse("rejected", 0, ""),
      CreateUserResponse("notJson", 502, ""),
      CreateUserResponse("json", 200, "User created successfully"),
      CreateUserResponse("json", 201, ""),
      CreateUserResponse("json", 204, ""),
      CreateUserResponse("json", 400, "User already exists"),
      CreateUserResponse("json", 500, "") }

\* createUser once fetch has settled, user.ts:24-58: the body is parsed
\* before response.ok is looked at; every throw is caught and rethrown
createUser(r) ==
    IF r.kind = "rejected" THEN Thrown("Failed to register user: Failed to fetch")
    ELSE IF r.kind = "notJson"
    THEN Thrown("Failed to register user: Unexpected token in JSON")
    ELSE IF ~Ok(r.status)
    THEN Thrown("Failed to register user: "
                \o OrElse(r.message,
                          "API request failed with status " \o ToString(r.status)))
    ELSE Resolved(r.message = "User created successfully"
                  \/ r.status = 200 \/ r.status = 201)

\* formStructure of FormPage: null, or the `form` object of a response
NoForm == [isNull |-> TRUE, sections |-> <<>>]

Form(items) == [isNull |-> FALSE, sections |-> items]

\* the exchanges of GET /get-form.  data: the parsed body is null or an
\* object; form: its `form` member; sections: what form.sections is, and
\* items: the elements when it is an array
FormResponse(kind, status, message, data, form, sections, items) ==
    [kind |-> kind, status |-> status, message |-> message, data |-> data,
     form |-> form, sections |-> sections, items |-> items]

NoResponse == FormResponse("none", 0, "", "null", "missing", "missing", <<>>)

GoodResponse ==
    FormResponse("json", 200, "", "object", "object", "array",
                 formStructure.sections)

FormResponses ==
    { FormResponse("rejected", 0, "", "null", "missing", "missing", <<>>),
      FormResponse("notJson", 200, "", "null", "missing", "missing", <<>>),
      FormResponse("notJson", 502, "", "null", "missing", "missing", <<>>),
      FormResponse("json", 404, "User not found", "object", "missing", "missing", <<>>),
      FormResponse("json", 500, "", "object", "missing", "missing", <<>>),
      FormResponse("json", 200, "", "null", "missing", "missing", <<>>),
      FormResponse("json", 200, "", "object", "missing", "missing", <<>>),
      FormResponse("json", 200, "", "object", "object", "missing", <<>>),
      FormResponse("json", 200, "", "object", "object", "string", <<>>),
      FormResponse("json", 200, "", "object", "object", "array", <<>>),
      GoodResponse }

\* a variant of getForm without the structure check of line 161
getForm_Unchecked(r) ==
    IF r.kind = "rejected" THEN Thrown("Failed to fetch form: Failed to fetch")
    ELSE IF ~Ok(r.status)
    THEN Thrown("Failed to fetch form: "
                \o OrElse(IF r.kind = "json" THEN r.message ELSE "",
                          "API request failed with status " \o ToString(r.status)))
    ELSE IF r.kind = "notJson"
    THEN Thrown("Failed to fetch form: Unexpected token in JSON")
    ELSE Resolved(IF r.form = "object" THEN Form(r.items) ELSE NoForm)

\* getForm once fetch has settled, lib/api/form.ts (part_000:143-176).  It
\* resolves to the parsed body, of which FormPage reads only `form`: the
\* value here is that member.
getForm(r) ==
    IF r.kind = "rejected" THEN Thrown("Failed to fetch form: Failed to fetch")
    ELSE IF ~Ok(r.status)
    THEN Thrown("Failed to fetch form: "
                \o OrElse(IF r.kind = "json" THEN r.message ELSE "",
                          "API request failed with status " \o ToString(r.status)))
    ELSE IF r.kind = "notJson"
    THEN Thrown("Failed to fetch form: Unexpected token in JSON")
    ELSE IF r.data = "null" \/ r.form = "missing" \/ r.sections # "array"
    THEN Thrown("Failed to fetch form: Invalid form structure received from API.")
    ELSE Resolved(Form(r.items))

\* sessionStorage.getItem('rollNumber') when nothing is stored
NoRollNumber == ""

\* what the user types into the login form
LoginInputs ==
    [rollNumber : {"", "RA42", "RA43"}, name : {"", "Asha"}]

\* LoginForm: the values typed (useForm), useState(false), useState(null);
\* call holds the values of the onSubmit suspended at await createUser,
\* outcome what createUser produced for the onSubmit that completed last
LoginState(typed, isLoading, error, call, outcome) ==
    [values |-> typed, isLoading |-> isLoading, error |-> error,
     call |-> call, outcome |-> outcome]

LoginIdle ==
    LoginState([rollNumber |-> "", name |-> ""], FALSE, "", <<>>, "none")

\* loginSchema: both fields z.string().min(1)
loginSchema(v) == v.rollNumber # "" /\ v.name # ""

\* FormPage: its useState cells (part_000:288-290), where its effect stands,
\* the response its getForm call received and the number of calls made
PageState(stage, form, isLoading, error, response, fetches) ==
    [stage |-> stage, formStructure |-> form, isLoading |-> isLoading,
     error |-> error, response |-> response, fetches |-> fetches]

PageUnmounted == PageState("unmounted", NoForm, TRUE, "", NoResponse, 0)

PageMounted == PageState("mounted", NoForm, TRUE, "", NoResponse, 0)

\* the elements FormPage's render shows, part_000:346-365
Rendered(p, rollNumber) ==
    (IF p.isLoading THEN {"Skeleton"} ELSE {})
    \cup (IF p.error # "" THEN {"Alert"} ELSE {})
    \cup (IF ~p.isLoading /\ p.error = "" /\ ~p.formStructure.isNull
          THEN {"DynamicForm"} ELSE {})
    \cup (IF ~p.isLoading /\ p.error = "" /\ p.formStructure.isNull
             /\ rollNumber = NoRollNumber
          THEN {"Redirecting to login..."} ELSE {})
    \cup (IF ~p.isLoading /\ p.error = "" /\ p.formStructure.isNull
             /\ rollNumber # NoRollNumber
          THEN {"No form data found for this user."} ELSE {})

\* the application once a logged-in user's form has been fetched and
\* DynamicForm is constructed with it
ShowingForm ==
    /\ session = "RA42"
    /\ route = "/form"
    /\ login = LoginIdle
    /\ page = PageState("settled", Form(formStructure.sections), FALSE, "",
                        GoodResponse, 1)

\* the application when the browser opens the login page, nothing stored
AppStart ==
    /\ session = NoRollNumber
    /\ route = "/"
    /\ login = LoginIdle
    /\ page = PageUnmounted

\* the browser and the probes when no probe is made
SchemaStart ==
    /\ runtime = Browser(<<2026, 11, 1>>, TRUE)
    /\ probeSections = formStructure.sections
    /\ probeField = FieldOf("name")
    /\ probe = NoProbe

Init ==
    /\ FormInit
    /\ ShowingForm
    /\ SchemaStart

\* an invocation suspended at `await form.trigger(names)`: the index its closure
\* captured, the names it validates and what the resolver found
Invocation(op, names) ==
    [op |-> op, k |-> currentSectionIndex, names |-> names, result |-> resolver(values)]

\* trigger that passes as soon as one validated field passes
TriggerValid_Some(inv) == \E id \in inv.names : inv.result[id] = NoError

\* form.trigger's boolean: no error among the validated names
TriggerValid(inv) == \A id \in inv.names : inv.result[id] = NoError

\* trigger that leaves formState.errors as it was
TriggerErrors_Stale(inv) == errors

\* trigger replacing formState.errors by the errors of the validated names
TriggerErrors_Replace(inv) ==
    [id \in FieldIds |-> IF id \in inv.names THEN inv.result[id] ELSE NoError]

\* form.trigger's update of formState.errors: only the validated names change
TriggerErrors(inv) ==
    [id \in FieldIds |-> IF id \in inv.names THEN inv.result[id] ELSE errors[id]]

\* does the invocation end in a toast(..) call
Toasts(inv) == inv.op = "submit" \/ ~TriggerValid(inv)

Submits(inv) == inv.op = "submit" /\ TriggerValid(inv)

Count(P(_)) == Cardinality({i \in 1 .. Len(pending) : P(pending[i])})

\* the recorded logs stay within the bounds of the model
Room(inv) ==
    /\ Toasts(inv) => Len(toasts) + Count(Toasts) < MaxToasts
    /\ Submits(inv) => Len(sink) + Count(Submits) < MaxSubmits

\* a change that validates the whole form again
onChange_RevalidateAll(f, v) ==
    /\ values' = [values EXCEPT ![f.fieldId] = v]
    /\ errors' = resolver(values')
    /\ last' = Completed("change", currentSectionIndex, FieldError(f.fieldId, v) = NoError)
    /\ UNCHANGED <<currentSectionIndex, toasts, sink, pending>>
    /\ UNCHANGED <<schemaVars, appVars>>

\* RHFfield.onChange(value) with mode: 'onChange': the value is stored and
\* that field alone is validated again
onChange(f, v) ==
    /\ values' = [values EXCEPT ![f.fieldId] = v]
    /\ errors' = [errors EXCEPT ![f.fieldId] = FieldError(f.fieldId, v)]
    /\ last' = Completed("change", currentSectionIndex, FieldError(f.fieldId, v) = NoError)
    /\ UNCHANGED <<currentSectionIndex, toasts, sink, pending>>
    /\ UNCHANGED <<schemaVars, appVars>>

UpdateField(overlap) ==
    /\ overlap \/ Idle
    /\ \E f \in AllFields : \E v \in WidgetInputs(f) : onChange(f, v)

\* validating the whole form on Next
fieldsToValidate_All == FieldIds

\* Next validating the required fields of the section only
fieldsToValidate_Required ==
    {f.fieldId : f \in {g \in SectionFields(currentSectionIndex) : g.required}}

\* currentSection.fields.map(f => f.fieldId)
fieldsToValidate == SectionFieldIds(currentSectionIndex)

\* handleNext up to `await form.trigger(fieldsToValidate)`
handleNextStart(overlap) ==
    /\ overlap \/ Idle
    /\ LET inv == Invocation("next", fieldsToValidate)
       IN  /\ Room(inv)
           /\ pending' = Append(pending, inv)
    /\ UNCHANGED <<currentSectionIndex, values, errors, toasts, sink, last>>
    /\ UNCHANGED <<schemaVars, appVars>>

\* the bound of handleNext off by one
hasNextSection_OffByOne(k) == k < totalSections

\* currentSectionIndex < totalSections - 1, on the index the closure captured
hasNextSection(k) == k < totalSections - 1

\* handleNext written with a functional update, setCurrentSectionIndex(i => i + 1)
handleNextFinish_FunctionalUpdate ==
    /\ pending # <<>>
    /\ Head(pending).op = "next"
    /\ LET inv == Head(pending)
           isValid == TriggerValid(inv)
       IN  /\ errors' = TriggerErrors(inv)
           /\ IF isValid /\ hasNextSection(inv.k)
              THEN /\ currentSectionIndex' = currentSectionIndex + 1
                   /\ UNCHANGED toasts
              ELSE IF ~isValid
                   THEN /\ toasts' = Append(toasts, "Validation Error")
                        /\ UNCHANGED currentSectionIndex
                   ELSE UNCHANGED <<currentSectionIndex, toasts>>
           /\ last' = Completed("next", inv.k, isValid)
    /\ pending' = Tail(pending)
    /\ UNCHANGED <<values, sink>>
    /\ UNCHANGED <<schemaVars, appVars>>

\* handleNext after the await
handleNextFinish ==
    /\ pending # <<>>
    /\ Head(pending).op = "next"
    /\ LET inv == Head(pending)
           isValid == TriggerValid(inv)
       IN  /\ errors' = TriggerErrors(inv)
           /\ IF isValid /\ hasNextSection(inv.k)
              THEN /\ currentSectionIndex' = inv.k + 1
                   /\ UNCHANGED toasts
              ELSE IF ~isValid
                   THEN /\ toasts' = Append(toasts, "Validation Error")
                        /\ UNCHANGED currentSectionIndex
                   ELSE UNCHANGED <<currentSectionIndex, toasts>>
           /\ last' = Completed("next", inv.k, isValid)
    /\ pending' = Tail(pending)
    /\ UNCHANGED <<values, sink>>
    /\ UNCHANGED <<schemaVars, appVars>>

\* Previous gated by the current section's validity, as Next is
handlePrev_Validating(overlap) ==
    /\ overlap \/ Idle
    /\ IF currentSectionIndex > 0 /\ SectionValid(currentSectionIndex, values)
       THEN currentSectionIndex' = currentSectionIndex - 1
       ELSE UNCHANGED currentSectionIndex
    /\ last' = Completed("prev", currentSectionIndex, TRUE)
    /\ UNCHANGED <<values, errors, toasts, sink, pending>>
    /\ UNCHANGED <<schemaVars, appVars>>

\* Previous that also discards the answers of the section it leaves
handlePrev_Discarding(overlap) ==
    /\ overlap \/ Idle
    /\ IF currentSectionIndex > 0
       THEN /\ currentSectionIndex' = currentSectionIndex - 1
            /\ values' = [id \in FieldIds |->
                            IF id \in SectionFieldIds(currentSectionIndex)
                            THEN generateDefaultValues[id] ELSE values[id]]
       ELSE UNCHANGED <<currentSectionIndex, values>>
    /\ last' = Completed("prev", currentSectionIndex, TRUE)
    /\ UNCHANGED <<errors, toasts, sink, pending>>
    /\ UNCHANGED <<schemaVars, appVars>>

handlePrev(overlap) ==
    /\ overlap \/ Idle
    /\ IF currentSectionIndex > 0
       THEN currentSectionIndex' = currentSectionIndex - 1
       ELSE UNCHANGED currentSectionIndex
    /\ last' = Completed("prev", currentSectionIndex, TRUE)
    /\ UNCHANGED <<values, errors, toasts, sink, pending>>
    /\ UNCHANGED <<schemaVars, appVars>>

\* Submit validating the current section only
onSubmitStart_CurrentOnly(overlap) ==
    /\ overlap \/ Idle
    /\ LET inv == Invocation("submit", fieldsToValidate)
       IN  /\ Room(inv)
           /\ pending' = Append(pending, inv)
    /\ UNCHANGED <<currentSectionIndex, values, errors, toasts, sink, last>>
    /\ UNCHANGED <<schemaVars, appVars>>

\* onSubmit up to `await form.trigger()`
onSubmitStart(overlap) ==
    /\ overlap \/ Idle
    /\ LET inv == Invocation("submit", FieldIds)
       IN  /\ Room(inv)
           /\ pending' = Append(pending, inv)
    /\ UNCHANGED <<currentSectionIndex, values, errors, toasts, sink, last>>
    /\ UNCHANGED <<schemaVars, appVars>>

\* the scan without its break: the last section with an error wins
firstErrorSectionIndex_Last(errs) ==
    LET hasError(i) == \E id \in SectionFieldIds(i) : errs[id] # NoError
        withError == {i \in SectionIndexes : hasError(i)}
    IN  IF withError = {} THEN -1
        ELSE CHOOSE i \in withError : \A j \in withError : i >= j

\* a failed submit always going back to the first section
firstErrorSectionIndex_Zero(errs) == 0

\* the scan for the first section with an error; -1 when there is none
firstErrorSectionIndex(errs) ==
    LET hasError(i) == \E id \in SectionFieldIds(i) : errs[id] # NoError
        withError == {i \in SectionIndexes : hasError(i)}
    IN  IF withError = {} THEN -1
        ELSE CHOOSE i \in withError : \A j \in withError : i <= j

\* the data read after the form was reset
getValues_AfterReset == generateDefaultValues

\* form.getValues()
getValues == values

\* a reset that keeps the answers
reset_KeepValues(newValues) ==
    [values |-> values, errors |-> [id \in FieldIds |-> NoError]]

\* form.reset(newValues): the values are replaced and the errors cleared
reset(newValues) ==
    [values |-> newValues, errors |-> [id \in FieldIds |-> NoError]]

\* onSubmit after the await
onSubmitFinish ==
    /\ pending # <<>>
    /\ Head(pending).op = "submit"
    /\ LET inv == Head(pending)
           isFormValid == TriggerValid(inv)
           errs == TriggerErrors(inv)
           first == firstErrorSectionIndex(errs)
       IN  /\ IF ~isFormValid
              THEN /\ errors' = errs
                   /\ toasts' = Append(toasts, "Submission Failed")
                   /\ IF first # -1 /\ first # inv.k
                      THEN currentSectionIndex' = first
                      ELSE UNCHANGED currentSectionIndex
                   /\ UNCHANGED <<values, sink>>
              ELSE /\ sink' = Append(sink, getValues)
                   /\ toasts' = Append(toasts, "Success!")
                   /\ values' = reset(generateDefaultValues).values
                   /\ errors' = reset(generateDefaultValues).errors
                   /\ currentSectionIndex' = 0
           /\ last' = Completed("submit", inv.k, isFormValid)
    /\ pending' = Tail(pending)
    /\ UNCHANGED <<schemaVars, appVars>>

Next ==
    \/ UpdateField(FALSE)
    \/ handleNextStart(FALSE)
    \/ handleNextFinish
    \/ handlePrev(FALSE)
    \/ onSubmitStart(FALSE)
    \/ onSubmitFinish

Spec == Init /\ [][Next]_vars

(***************************************************************************)
(* The round trip: from the initial state the user fills the fields of the *)
(* section shown with valid values, presses Next on every section but the  *)
(* last and Submit on the last one.                                        *)
(***************************************************************************)
FillValid ==
    /\ Idle
    /\ \E f \in SectionFields(currentSectionIndex) : \E v \in WidgetInputs(f) :
          /\ FieldError(f.fieldId, v) = NoError
          /\ onChange(f, v)

PressNext ==
    /\ ~isLastSection
    /\ SectionValid(currentSectionIndex, values)
    /\ handleNextStart(FALSE)

PressSubmit ==
    /\ isLastSection
    /\ SectionValid(currentSectionIndex, values)
    /\ onSubmitStart(FALSE)

RoundTripNext ==
    \/ FillValid
    \/ PressNext
    \/ handleNextFinish
    \/ PressSubmit
    \/ onSubmitFinish

SpecRoundTrip == Init /\ [][RoundTripNext]_vars

(***************************************************************************)
(* The form as the user drives it: the fields rendered are those of the    *)
(* section shown, and a handler runs when its button is pressed.           *)
(***************************************************************************)
\* a footer with Submit on every section
footerButtons_SubmitEverywhere ==
    (IF currentSectionIndex = 0 THEN {} ELSE {"Previous"}) \cup {"Submit", "Next"}

\* the buttons of the footer that can be pressed: Previous is disabled on the
\* first section, Submit is rendered on the last section and Next otherwise
footerButtons ==
    (IF currentSectionIndex = 0 THEN {} ELSE {"Previous"})
        \cup (IF isLastSection THEN {"Submit"} ELSE {"Next"})

ChangeShown ==
    /\ Idle
    /\ \E f \in SectionFields(currentSectionIndex) : \E v \in WidgetInputs(f) : onChange(f, v)

ClickNext == "Next" \in footerButtons /\ handleNextStart(FALSE)

ClickPrevious == "Previous" \in footerButtons /\ handlePrev(FALSE)

ClickSubmit == "Submit" \in footerButtons /\ onSubmitStart(FALSE)

UserNext ==
    \/ ChangeShown
    \/ ClickNext
    \/ handleNextFinish
    \/ ClickPrevious
    \/ ClickSubmit
    \/ onSubmitFinish

SpecUser == Init /\ [][UserNext]_vars

(***************************************************************************)
(* Overlapping handlers.  handleNext and onSubmit return to the event loop *)
(* at their await; an event dispatched before the continuation has run     *)
(* (events dispatched from one script task, such as two click() calls in a *)
(* row) is handled in between.  The runs followed here are those of Next   *)
(* pressed and fields of the section shown changed in any order: up to     *)
(* MaxPending invocations are suspended at once, and a field takes its     *)
(* default or one other value.                                             *)
(***************************************************************************)
OverlapInputs(f) ==
    CASE f.type = "checkbox" -> BOOLEAN
      [] f.type = "tel" -> {<<>>, <<"7">>}
      [] f.type = "textarea" -> TextareaInputs
      [] OTHER -> {<<>>, <<"a", "b">>}

\* the fields rendered are those of the section shown
OverlapChange ==
    \E f \in SectionFields(currentSectionIndex) : \E v \in OverlapInputs(f) : onChange(f, v)

OverlapNext == Len(pending) < MaxPending /\ handleNextStart(TRUE)

OverlapNextStep ==
    \/ OverlapChange
    \/ OverlapNext
    \/ handleNextFinish

SpecOverlap == Init /\ [][OverlapNextStep]_vars

(***************************************************************************)
(* Probes of the pure functions.  A probe starts from a descriptor (or one *)
(* field descriptor) drawn from a bounded set and applies                  *)
(* generateDefaultValues, or compiles the field with buildSchema's rules   *)
(* and parses a value with the result, as the resolver does.               *)
(***************************************************************************)
FieldTypes ==
    {"text", "textarea", "email", "tel", "date", "dropdown", "radio", "checkbox"}

\* fields a probed descriptor is assembled from; fieldIds are unique in a form
FieldPool ==
    { FormField("a", "text", "A", TRUE, Undefined, Undefined, ""),
      FormField("b", "checkbox", "B", TRUE, Undefined, Undefined, ""),
      FormField("c", "date", "C", FALSE, Undefined, Undefined, ""),
      FormField("d", "checkbox", "D", FALSE, Undefined, Undefined, "") }

FieldLists ==
    {fs \in UNION {[1 .. n -> FieldPool] : n \in 0 .. MaxFields} :
        \A i, j \in 1 .. Len(fs) : fs[i].fieldId = fs[j].fieldId => i = j}

\* the descriptors probed: up to MaxSections sections of up to MaxFields fields
Descriptors ==
    {secs \in UNION {[1 .. n -> {[title |-> "Section", fields |-> fs] : fs \in FieldLists}] :
                        n \in 0 .. MaxSections} :
        LET all == Flatten(secs)
        IN  \A i, j \in 1 .. Len(all) : all[i].fieldId = all[j].fieldId => i = j}

\* minLength / maxLength of a probed field
Lengths == {Undefined} \cup (0 .. MaxLength)

\* the field descriptors probed
FieldSpace ==
    {FormField("f", type, "Field", required, minLength, maxLength, message) :
        type \in FieldTypes, required \in BOOLEAN,
        minLength \in Lengths, maxLength \in Lengths, message \in {"", "Custom"}}

Repeat(c, n) == [i \in 1 .. n |-> c]

Pad2(n) == <<ToString(n \div 10), ToString(n % 10)>>

Pad4(n) == Pad2(n \div 100) \o Pad2(n % 100)

\* format(date, 'yyyy-MM-dd'), what an <input type="date"> delivers
formatDate(day) == Pad4(day[1]) \o <<"-">> \o Pad2(day[2]) \o <<"-">> \o Pad2(day[3])

\* the same day written dd-MM-yyyy
dayFirst(day) == Pad2(day[3]) \o <<"-">> \o Pad2(day[2]) \o <<"-">> \o Pad4(day[1])

\* the local days a probe runs on
Todays == {<<2024, 2, 29>>, <<2026, 11, 1>>}

\* year-month-day triples typed into a date field; not all are calendar days
TypedDays ==
    {<<2024, 2, 28>>, <<2024, 2, 29>>, <<2024, 3, 1>>, <<2026, 11, 1>>, <<2099, 1, 1>>,
     <<2023, 13, 1>>, <<2023, 2, 30>>, <<2024, 2, 30>>}

EmailInputs ==
    {<<>>, <<"a">>, <<"a", "@", "b">>, <<"a", "@", "b", ".", "c">>,
     <<"a", "@", "b", ".", "c", "o">>, <<".", "a", "@", "b", ".", "c", "o">>}

\* the values parsed with the schema of a probed field
ProbeInputs(f) ==
    CASE f.type = "checkbox" -> BOOLEAN
      [] f.type \in {"text", "textarea"} -> {Repeat("a", n) : n \in 0 .. (MaxLength + 1)}
      [] f.type = "tel" ->
            {Repeat("7", n) : n \in 0 .. (MaxLength + 1)} \cup {<<"x">>, <<"+", "7">>}
      [] f.type = "email" -> EmailInputs
      [] f.type = "date" ->
            {formatDate(d) : d \in TypedDays} \cup {<<>>, dayFirst(<<2099, 1, 1>>)}
      [] OTHER -> {<<>>, <<"a">>}

InitDefaults ==
    /\ FormInit
    /\ ShowingForm
    /\ runtime = Browser(<<2026, 11, 1>>, TRUE)
    /\ probeSections \in Descriptors
    /\ probeField = FieldOf("name")
    /\ probe = NoProbe

\* generateDefaultValues() on the probed descriptor
GenerateDefaults ==
    /\ probe.op = "none"
    /\ probe' = Probed("generateDefaultValues", <<>>,
                       generateDefaultValuesOf(probeSections), <<>>)
    /\ UNCHANGED <<appVars, formVars, runtime, probeSections, probeField>>

SpecDefaults == InitDefaults /\ [][GenerateDefaults]_vars

InitSchema ==
    /\ FormInit
    /\ ShowingForm
    /\ runtime \in {Browser(day, rollover) : day \in Todays, rollover \in BOOLEAN}
    /\ probeSections = formStructure.sections
    /\ probeField \in FieldSpace
    /\ probe = NoProbe

\* the resolver on one value of the probed field: buildSchema's schema of the
\* field parses the value, the first issue is the error reported
Parse ==
    /\ probe.op = "none"
    /\ \E v \in ProbeInputs(probeField) :
          probe' = Probed("parse", v, FirstIssue(fieldSchema(probeField), v),
                          Issues(fieldSchema(probeField), v))
    /\ UNCHANGED <<appVars, formVars, runtime, probeSections, probeField>>

SpecSchema == InitSchema /\ [][Parse]_vars

(***************************************************************************)
(* DynamicForm rendered again with another descriptor.  useMemo rebuilds   *)
(* the schema for the new formStructure.sections and useForm takes the new *)
(* resolver; useForm reads its defaultValues option when the form is       *)
(* created only, so the values the form holds stay as they are.            *)
(* probe.value is the values of the form, probe.result its schema.         *)
(***************************************************************************)
\* the first render
Mount ==
    /\ probe.op = "none"
    /\ probe' = Probed("mount", generateDefaultValuesOf(probeSections),
                       buildSchemaOf(probeSections), <<>>)
    /\ UNCHANGED <<appVars, formVars, runtime, probeSections, probeField>>

\* a render with a new formStructure prop
Rerender ==
    /\ probe.op \in {"mount", "rerender"}
    /\ \E next \in Descriptors \ {probeSections} :
          /\ probeSections' = next
          /\ probe' = Probed("rerender", probe.value, buildSchemaOf(next), <<>>)
    /\ UNCHANGED <<appVars, formVars, runtime, probeField>>

SpecRerender == InitDefaults /\ [][Mount \/ Rerender]_vars

(***************************************************************************)
(* The application's steps.  LoginForm's onSubmit and FormPage's fetchForm *)
(* are async: the ..Submit / ..Effect action is the part before the await, *)
(* the ..Settle action the part after it, with the exchange the network    *)
(* produced as its input.                                                  *)
(***************************************************************************)
\* the user types into a field of the login form
LoginChange ==
    /\ route = "/"
    /\ \E v \in LoginInputs :
          /\ v # login.values
          /\ (v.rollNumber = login.values.rollNumber \/ v.name = login.values.name)
          /\ login' = [login EXCEPT !.values = v]
    /\ UNCHANGED <<session, route, page, formVars, schemaVars>>

\* a variant of onSubmit that stores the roll number before calling createUser
LoginSubmit_StoreFirst ==
    /\ route = "/"
    /\ ~login.isLoading
    /\ loginSchema(login.values)
    /\ login' = LoginState(login.values, TRUE, "", <<login.values>>, login.outcome)
    /\ session' = login.values.rollNumber
    /\ UNCHANGED <<route, page, formVars, schemaVars>>

\* form.handleSubmit(onSubmit) up to await createUser(values), README.md:96-101.
\* handleSubmit calls onSubmit only with values loginSchema accepts; the
\* submit button is disabled while isLoading.
LoginSubmit ==
    /\ route = "/"
    /\ ~login.isLoading
    /\ loginSchema(login.values)
    /\ login' = LoginState(login.values, TRUE, "", <<login.values>>, login.outcome)
    /\ UNCHANGED <<session, route, page, formVars, schemaVars>>

\* onSubmit from the point createUser settled, README.md:101-120.
\* sessionStorage.setItem throws when the browser denies storage; the throw
\* lands in the same catch.
LoginSettle ==
    /\ login.call # <<>>
    /\ \E r \in CreateUserResponses, storage \in {"stored", "denied"} :
          LET out == createUser(r)
              v == Head(login.call)
          IN  IF out.threw
              THEN /\ login' = LoginState(login.values, FALSE, out.message, <<>>, "threw")
                   /\ UNCHANGED <<session, route, page>>
              ELSE IF ~out.value
              THEN /\ login' = LoginState(login.values, FALSE,
                                          "Registration failed. Please try again.",
                                          <<>>, "false")
                   /\ UNCHANGED <<session, route, page>>
              ELSE IF storage = "denied"
              THEN /\ login' = LoginState(login.values, FALSE, "The operation is insecure.",
                                          <<>>, "true")
                   /\ UNCHANGED <<session, route, page>>
              ELSE /\ session' = v.rollNumber
                   /\ route' = "/form"
                   /\ page' = PageMounted
                   /\ login' = [LoginIdle EXCEPT !.outcome = "true"]
    /\ UNCHANGED <<formVars, schemaVars>>

\* the user opens /form directly; LoginForm unmounts
OpenFormPage ==
    /\ route = "/"
    /\ login.call = <<>>
    /\ route' = "/form"
    /\ page' = PageMounted
    /\ login' = LoginIdle
    /\ UNCHANGED <<session, formVars, schemaVars>>

\* the user goes back to the login page from a settled form page
OpenLoginPage ==
    /\ route = "/form"
    /\ page.stage = "settled"
    /\ route' = "/"
    /\ page' = PageUnmounted
    /\ login' = LoginIdle
    /\ UNCHANGED <<session, formVars, schemaVars>>

\* a variant of the effect that calls getForm whether or not a roll number
\* is stored
PageEffect_FetchAlways ==
    /\ route = "/form"
    /\ page.stage = "mounted"
    /\ page' = [page EXCEPT !.stage = "fetching",
                            !.isLoading = TRUE,
                            !.error = "",
                            !.fetches = page.fetches + 1]
    /\ UNCHANGED <<session, route, login, formVars, schemaVars>>

\* FormPage's useEffect up to the redirect timer or await getForm,
\* part_000:293-321
PageEffect ==
    /\ route = "/form"
    /\ page.stage = "mounted"
    /\ IF session = NoRollNumber
       THEN page' = [page EXCEPT !.stage = "redirecting",
                                 !.error = "You must log in first."]
       ELSE page' = [page EXCEPT !.stage = "fetching",
                                 !.isLoading = TRUE,
                                 !.error = "",
                                 !.fetches = page.fetches + 1]
    /\ UNCHANGED <<session, route, login, formVars, schemaVars>>

\* setTimeout(() => router.push('/'), 2000) fires
PageRedirect ==
    /\ route = "/form"
    /\ page.stage = "redirecting"
    /\ route' = "/"
    /\ page' = PageUnmounted
    /\ login' = LoginIdle
    /\ UNCHANGED <<session, formVars, schemaVars>>

\* fetchForm from the point getForm settled, part_000:309-318
PageSettle ==
    /\ route = "/form"
    /\ page.stage = "fetching"
    /\ \E r \in FormResponses :
          LET out == getForm(r)
          IN  page' = [page EXCEPT
                          !.stage = "settled",
                          !.formStructure = IF out.threw THEN @ ELSE out.value,
                          !.error = IF out.threw THEN out.message ELSE @,
                          !.isLoading = FALSE,
                          !.response = r]
    /\ UNCHANGED <<session, route, login, formVars, schemaVars>>

AppNext ==
    \/ LoginChange
    \/ LoginSubmit
    \/ LoginSettle
    \/ OpenFormPage
    \/ OpenLoginPage
    \/ PageEffect
    \/ PageRedirect
    \/ PageSettle

\* the browser opens the login page; no form is shown yet
InitApp ==
    /\ FormInit
    /\ SchemaStart
    /\ AppStart

SpecApp == InitApp /\ [][AppNext]_vars

(***************************************************************************)
(* Properties.                                                             *)
(***************************************************************************)
NoErrors == [id \in FieldIds |-> NoError]

\* the smallest index of a section holding an invalid answer
FirstInvalidSection(vals) ==
    CHOOSE i \in SectionIndexes :
        /\ ~SectionValid(i, vals)
        /\ \A j \in SectionIndexes : j < i => SectionValid(j, vals)

\* the step on which a suspended handleNext / onSubmit resumes
NextFinishStep ==
    pending # <<>> /\ Head(pending).op = "next" /\ pending' = Tail(pending)

SubmitFinishStep ==
    pending # <<>> /\ Head(pending).op = "submit" /\ pending' = Tail(pending)

\* a step of handlePrev
PrevStep == Idle /\ pending' = pending /\ last'.op = "prev"

\* C1: a navigate-next invoked at section k while some field of section k is
\* invalid leaves the section index at k, whatever the other sections hold.
C1_NextBlockedWhenSectionInvalid ==
    (last.op = "next" /\ ~SectionValid(last.k, values))
        => currentSectionIndex = last.k

\* C1 witness: Next was pressed on section 1, the only invalid section.
C1_Witness ==
    /\ last.op = "next" /\ last.k = 1 /\ currentSectionIndex = 1
    /\ SectionValid(0, values) /\ ~SectionValid(1, values) /\ SectionValid(2, values)

\* C2: after a submit whose whole-form validation failed, the section index
\* is the smallest index of a section with an invalid field.
C2_SubmitGoesToFirstInvalidSection ==
    (last.op = "submit" /\ ~last.isValid)
        => currentSectionIndex = FirstInvalidSection(values)

\* C2 witness: submit at section 2 with sections 0 and 2 invalid went to 0.
C2_Witness ==
    /\ last.op = "submit" /\ ~last.isValid /\ last.k = 2
    /\ ~SectionValid(0, values) /\ SectionValid(1, values) /\ ~SectionValid(2, values)
    /\ currentSectionIndex = 0

\* C3: every AnswerMap handed to the submission sink is valid in every field.
C3_OnlyValidDataSubmitted == \A i \in 1 .. Len(sink) : FormValid(sink[i])

\* C3 witness: a submit has handed data over.
C3_Witness == last.op = "submit" /\ last.isValid /\ Len(sink) = 1

\* C4: in the round trip, every navigate-next moves on by one section, and
\* the submit on the last section hands over exactly the values entered and
\* puts the index back to 0 and the answers back to their defaults.
C4_RoundTrip ==
    [][/\ NextFinishStep => currentSectionIndex' = currentSectionIndex + 1
       /\ SubmitFinishStep =>
             /\ currentSectionIndex = totalSections - 1
             /\ sink' = Append(sink, values)
             /\ currentSectionIndex' = 0
             /\ values' = generateDefaultValues]_vars

\* C4 witness: the round trip ended with the entered values in the sink.
C4_Witness ==
    /\ last.op = "submit" /\ last.k = totalSections - 1
    /\ Len(sink) = 1
    /\ sink[1]["name"] = <<"a", "b", "c">> /\ sink[1]["agree"] = TRUE
    /\ sink[1]["phone"] = <<"7">>
    /\ currentSectionIndex = 0 /\ values = generateDefaultValues

\* C5: after a successful submit the engine is in its initial state: index 0,
\* default answers, no error message.
C5_SuccessfulSubmitResets ==
    (last.op = "submit" /\ last.isValid)
        => /\ currentSectionIndex = 0
           /\ values = generateDefaultValues
           /\ errors = NoErrors

\* C5 witness: a second fill-and-submit cycle has completed.
C5_Witness == last.op = "submit" /\ last.isValid /\ Len(sink) = 2

\* C6: the section index always lies in 0 .. sectionCount - 1.
C6_IndexInRange ==
    currentSectionIndex \in Int
        /\ 0 <= currentSectionIndex /\ currentSectionIndex < totalSections

\* C6 witness: Next was pressed on the last section with all its fields valid.
C6_Witness ==
    /\ last.op = "next" /\ last.k = totalSections - 1 /\ last.isValid
    /\ currentSectionIndex = totalSections - 1

\* C7: a navigate-next on a section that is valid and not the last moves on
\* by exactly one section, even if other sections hold invalid answers.
C7_NextAdvancesWhenSectionValid ==
    (last.op = "next" /\ SectionValid(last.k, values) /\ last.k < totalSections - 1)
        => currentSectionIndex = last.k + 1

\* C7 witness: Next moved from section 0 to 1 while sections 1 and 2 are invalid.
C7_Witness ==
    /\ last.op = "next" /\ last.k = 0 /\ currentSectionIndex = 1
    /\ ~SectionValid(1, values) /\ ~SectionValid(2, values)

\* C8: a rejected navigate-next records a message for each invalid field of
\* the section and requests exactly one notification; one that passes
\* validation requests none.
C8_RejectedNextReports ==
    [][NextFinishStep =>
          IF SectionValid(currentSectionIndex, values)
          THEN toasts' = toasts
          ELSE /\ Len(toasts') = Len(toasts) + 1
               /\ \A id \in SectionFieldIds(currentSectionIndex) :
                     ~FieldValid(id, values) => errors'[id] # NoError]_vars

\* C8 witness: the first Next, on the untouched section 0, was rejected.
C8_Witness ==
    /\ last.op = "next" /\ ~last.isValid /\ last.k = 0
    /\ toasts = <<"Validation Error">>
    /\ errors["name"] # NoError /\ errors["agree"] # NoError
    /\ errors["phone"] = NoError

\* C9: a failed submit requests exactly one notification, changes no answer,
\* and leaves the index alone when the first invalid section is the current one.
C9_FailedSubmit ==
    [][(SubmitFinishStep /\ ~FormValid(values)) =>
          /\ Len(toasts') = Len(toasts) + 1
          /\ values' = values
          /\ (FirstInvalidSection(values) = currentSectionIndex
                 => currentSectionIndex' = currentSectionIndex)]_vars

\* C9 witness: a submit failed on section 1, the first invalid section.
C9_Witness ==
    /\ last.op = "submit" /\ ~last.isValid /\ last.k = 1
    /\ FirstInvalidSection(values) = 1 /\ currentSectionIndex = 1
    /\ values # generateDefaultValues

\* C10: navigate-prev moves back by exactly one section when the index is
\* above 0 and does nothing at 0; it validates nothing.
C10_PrevMovesBack ==
    [][PrevStep =>
          /\ currentSectionIndex' =
                IF currentSectionIndex > 0 THEN currentSectionIndex - 1
                ELSE currentSectionIndex
          /\ errors' = errors /\ toasts' = toasts /\ values' = values]_vars

\* C10 witness: Previous left section 2 while its field was invalid.
C10_Witness ==
    /\ last.op = "prev" /\ last.k = 2 /\ currentSectionIndex = 1
    /\ ~SectionValid(2, values)

\* the fields of the probed descriptor
ProbedFields == Range(Flatten(probeSections))

\* C11: the default answers generated for a descriptor have exactly one entry
\* per fieldId of the descriptor: FALSE for a checkbox field and the empty
\* string for a field of any other type.
C11_DefaultsCoverEveryField ==
    probe.op = "generateDefaultValues" =>
        /\ DOMAIN probe.result = {f.fieldId : f \in ProbedFields}
        /\ \A f \in ProbedFields :
              IF f.type = "checkbox"
              THEN probe.result[f.fieldId] = FALSE
              ELSE probe.result[f.fieldId] = <<>>

\* defaults were generated for two sections, a checkbox in the second
C11_Witness ==
    /\ probe.op = "generateDefaultValues"
    /\ Len(probeSections) = 2
    /\ \E f \in Range(probeSections[2].fields) :
          f.type = "checkbox" /\ probe.result[f.fieldId] = FALSE
    /\ \E g \in Range(probeSections[1].fields) :
          g.type # "checkbox" /\ probe.result[g.fieldId] = <<>>

\* a value was parsed with the schema of the probed field
Parsed == probe.op = "parse"

\* the constraints of a field other than `required`: the length rules of
\* text, textarea and tel, the formats of tel, email and date, the date rule
OtherConstraintsHold(f, v) ==
    /\ f.type \in {"text", "textarea", "tel"} =>
          /\ f.minLength # Undefined => Len(v) >= f.minLength
          /\ f.maxLength # Undefined => Len(v) <= f.maxLength
    /\ f.type = "tel" => \A i \in 1 .. Len(v) : v[i] \in TelChars
    /\ f.type = "email" => EmailMatches(v)
    /\ f.type = "date" => notFuture(v)

\* C12: for a required field that is not a checkbox the empty string fails
\* validation, and every non-empty string that satisfies the field's other
\* constraints (length, format, date) passes.
C12_RequiredRejectsOnlyEmpty ==
    (Parsed /\ probeField.required /\ probeField.type # "checkbox") =>
        /\ probe.value = <<>> => probe.result # NoError
        /\ (probe.value # <<>> /\ OtherConstraintsHold(probeField, probe.value)) =>
              probe.result = NoError

\* a required date field accepted today's date
C12_Witness ==
    /\ Parsed
    /\ probeField.required
    /\ probeField.type = "date"
    /\ probe.value = formatDate(today)
    /\ probe.result = NoError

\* C13: for a non-checkbox field with required = false, of every type and
\* whatever its minLength, validating the empty string produces no error.
C13_OptionalAcceptsEmpty ==
    (Parsed /\ ~probeField.required /\ probeField.type # "checkbox"
        /\ probe.value = <<>>) =>
        probe.result = NoError

\* C14: whatever rule a value violates, when the field descriptor supplies a
\* validationMessage the error reported is that message, never a built-in one.
C14_ValidationMessageWins ==
    (Parsed /\ probeField.message # "" /\ probe.result # NoError) =>
        probe.result = probeField.message

\* C15: for a required field that is not a checkbox, the error reported for
\* the empty string is the validationMessage if the descriptor has one and
\* "<label> is required" otherwise, for every type and every minLength.
C15_EmptyRequiredReportsRequired ==
    (Parsed /\ probeField.required /\ probeField.type # "checkbox"
        /\ probe.value = <<>>) =>
        probe.result = IF probeField.message # "" THEN probeField.message
                       ELSE probeField.label \o " is required"

\* C16: a required checkbox passes validation only when its value is true;
\* false fails with the validationMessage, or "<label> is required" without one.
C16_RequiredCheckbox ==
    (Parsed /\ probeField.type = "checkbox" /\ probeField.required) =>
        /\ probe.result = NoError <=> probe.value = TRUE
        /\ probe.value = FALSE =>
              probe.result = IF probeField.message # "" THEN probeField.message
                             ELSE probeField.label \o " is required"

\* an unchecked required checkbox was rejected with the descriptor's message
C16_Witness ==
    /\ Parsed
    /\ probeField.type = "checkbox"
    /\ probeField.required
    /\ probeField.message = "Custom"
    /\ probe.value = FALSE
    /\ probe.result = "Custom"

\* the year, month and day written in a value of the form YYYY-MM-DD
TypedDay(v) ==
    <<Number(SubSeq(v, 1, 4)), Number(SubSeq(v, 6, 7)), Number(SubSeq(v, 9, 10))>>

\* the day exists in the calendar
IsCalendarDay(day) == day[2] \in 1 .. 12 /\ day[3] \in 1 .. daysInMonth(day[1], day[2])

\* a < b or a = b on year-month-day triples, written out
NotLater(a, b) ==
    a[1] < b[1] \/ (a[1] = b[1] /\ (a[2] < b[2] \/ (a[2] = b[2] /\ a[3] <= b[3])))

\* C17: for a date field, a value of the form YYYY-MM-DD passes the date rule
\* if and only if it is not later than today.
C17_DatePassesIffNotLater ==
    (Parsed /\ probeField.type = "date" /\ DateFormatMatches(probe.value)) =>
        (probe.result = NoError <=> NotLater(TypedDay(probe.value), runtime.today))

\* C17 (amended): for a date field, a value of the form YYYY-MM-DD that names a
\* day of the calendar passes the date rule if and only if that day is not
\* later than the local day on which the schema was built (that day itself
\* passes); a value whose month is not 01..12 or whose day is not 01..31 names
\* no day and fails whatever today is.
C17_CalendarDayPassesIffNotLater ==
    (Parsed /\ probeField.type = "date" /\ DateFormatMatches(probe.value)) =>
        LET day == TypedDay(probe.value) IN
        /\ IsCalendarDay(day) =>
              (probe.result = NoError <=> NotLater(day, runtime.today))
        /\ (day[2] \notin 1 .. 12 \/ day[3] \notin 1 .. 31) => probe.result # NoError

\* today's date was accepted by a date field
C17_Witness ==
    /\ Parsed
    /\ probeField.type = "date"
    /\ probe.value = formatDate(runtime.today)
    /\ runtime.today = <<2024, 2, 29>>
    /\ probe.result = NoError

\* C18: a value of a date field that is not of the form YYYY-MM-DD is reported
\* with the format error, not with the future-date error.
C18_FormatErrorFirst ==
    (Parsed /\ probeField.type = "date" /\ ~DateFormatMatches(probe.value)) =>
        /\ probe.result = IF probeField.message # "" THEN probeField.message
                          ELSE "Invalid date format (YYYY-MM-DD)"
        /\ probeField.message = "" =>
              probe.result # probeField.label \o " cannot be a future date"

\* 01-01-2099 raised both issues and the format error was the one reported
C18_Witness ==
    /\ Parsed
    /\ probeField.type = "date"
    /\ probe.value = dayFirst(<<2099, 1, 1>>)
    /\ probeField.message = ""
    /\ probe.result = "Invalid date format (YYYY-MM-DD)"
    /\ \E i \in 2 .. Len(probe.issues) :
          probe.issues[i] = probeField.label \o " cannot be a future date"

\* one of the two length rules raised an issue
LengthRejected ==
    \E i \in 1 .. Len(probe.issues) :
        probe.issues[i] \in {minLengthMessage(probeField), maxLengthMessage(probeField)}

\* C19: a value of a text or textarea field passes the length rules if and only
\* if its length is at least minLength (when set) and at most maxLength (when
\* set); with neither set no length is rejected.
C19_LengthRules ==
    (Parsed /\ probeField.type \in {"text", "textarea"}) =>
        (~LengthRejected <=>
            /\ probeField.minLength # Undefined => Len(probe.value) >= probeField.minLength
            /\ probeField.maxLength # Undefined => Len(probe.value) <= probeField.maxLength)

\* a value exactly as long as minLength was accepted
C19_Witness ==
    /\ Parsed
    /\ probeField.type = "text"
    /\ ~probeField.required
    /\ probeField.minLength = 2
    /\ probeField.maxLength = 3
    /\ Len(probe.value) = 2
    /\ probe.result = NoError

\* a step of a field's onChange
ChangeStep == Idle /\ pending' = pending /\ last'.op = "change"

\* C20: an update of one field changes nothing but that field's answer and
\* that field's validation state: the section index, every other answer and
\* every other field's error stay as they were, and no notification and no
\* submission is requested.
C20_UpdateFieldFrame ==
    [][ChangeStep =>
          /\ \E id \in FieldIds : \A other \in FieldIds \ {id} :
                values'[other] = values[other] /\ errors'[other] = errors[other]
          /\ currentSectionIndex' = currentSectionIndex
          /\ toasts' = toasts
          /\ sink' = sink
          /\ pending' = pending]_vars

\* a field of another section was changed to an invalid value while the
\* invalid, still unvalidated fields of the first section kept no error
C20_Witness ==
    /\ last.op = "change"
    /\ currentSectionIndex = 0
    /\ values["phone"] = <<"x">>
    /\ errors["phone"] # NoError
    /\ values["name"] = <<>>
    /\ errors["name"] = NoError
    /\ toasts = <<>>
    /\ sink = <<>>

\* C21: the answers are mutated only through a field's update: no step of
\* navigate-next, navigate-prev or submit changes the value of any answer.
C21_OnlyUpdateFieldChangesAnswers ==
    [][~ChangeStep => values' = values]_vars

\* C21 (amended): the answers are mutated only through a field's update and
\* by a successful submit, which replaces every answer by its default;
\* navigate-next, navigate-prev and a rejected submit change no answer.
C21_OnlyUpdateFieldOrResetChangesAnswers ==
    [][~ChangeStep =>
          \/ values' = values
          \/ /\ SubmitFinishStep
             /\ TriggerValid(Head(pending))
             /\ values' = generateDefaultValues]_vars

\* a rejected submit left the answers that were entered
C21_Witness ==
    /\ last.op = "submit"
    /\ ~last.isValid
    /\ values["name"] = <<"a", "b">>
    /\ values["agree"] = TRUE

\* C22: every engine transition is one atomic step: no other event (a field
\* change or a button press) is processed between the validation performed by
\* navigate-next or submit and the update the same invocation decides from it.
C22_TransitionsAtomic ==
    [][pending # <<>> => (NextFinishStep \/ SubmitFinishStep)]_vars

\* C28: overlapping navigate-next invocations never skip a section: an
\* invocation that started at section k leaves the index at most at k + 1,
\* whatever other invocation completed while it was suspended.
C28_OverlappingNextNeverSkips ==
    [][NextFinishStep => currentSectionIndex' <= Head(pending).k + 1]_vars

\* two invocations started at section 0 with valid answers; the first has
\* advanced to section 1 and the second is about to resume
C28_Witness ==
    /\ Len(pending) = 1
    /\ Head(pending).op = "next"
    /\ Head(pending).k = 0
    /\ TriggerValid(Head(pending))
    /\ last = Completed("next", 0, TRUE)
    /\ currentSectionIndex = 1

\* C29: navigate-next, whether it passes or is rejected, sets or clears the
\* validation messages of fields of the current section only: the validation
\* state of every field of every other section is left unchanged.
C29_NextTouchesCurrentSectionOnly ==
    [][NextFinishStep =>
          \A id \in FieldIds \ SectionFieldIds(currentSectionIndex) :
              errors'[id] = errors[id]]_vars

\* a rejected Next on the first section set the message of `name` and kept
\* the message `phone`, a field of the last section, already had
C29_Witness ==
    /\ last = Completed("next", 0, FALSE)
    /\ currentSectionIndex = 0
    /\ errors["name"] # NoError
    /\ values["phone"] = <<"x">>
    /\ errors["phone"] = "Invalid phone number format"

\* C25: submit is offered only while the section shown is the last one and
\* navigate-next only while it is not: in every reachable state exactly one
\* of the two can be pressed.
C25_SubmitXorNext ==
    /\ "Submit" \in footerButtons <=> currentSectionIndex = totalSections - 1
    /\ "Next" \in footerButtons <=> currentSectionIndex < totalSections - 1
    /\ Cardinality(footerButtons \cap {"Submit", "Next"}) = 1

\* the user arrived on the last section, where Submit has replaced Next
C25_Witness ==
    /\ last = Completed("next", totalSections - 2, TRUE)
    /\ currentSectionIndex = totalSections - 1
    /\ "Submit" \in footerButtons
    /\ "Next" \notin footerButtons

\* C27: when only the fields of the section shown can be edited, every
\* section before the one shown holds valid answers in every reachable state.
C27_EarlierSectionsValid ==
    \A j \in SectionIndexes : j < currentSectionIndex => SectionValid(j, values)

\* a submit was rejected on the last section for that section's own field
C27_Witness ==
    /\ last = Completed("submit", 2, FALSE)
    /\ currentSectionIndex = 2
    /\ ~SectionValid(2, values)
    /\ SectionValid(0, values)
    /\ SectionValid(1, values)

\* C24: after the engine was given a new descriptor, the validator holds
\* exactly the rules of the new descriptor's fields and the answers equal the
\* defaults synthesized from the new descriptor, nothing being carried over.
C24_FullyRederived ==
    probe.op = "rerender" =>
        /\ probe.result = buildSchemaOf(probeSections)
        /\ probe.value = generateDefaultValuesOf(probeSections)

\* a 2xx response whose JSON body lacks a form, or whose form.sections is
\* not an array
Malformed(r) ==
    /\ r.kind = "json"
    /\ Ok(r.status)
    /\ (r.data = "null" \/ r.form = "missing" \/ r.sections # "array")

\* C23: when the response to the descriptor request lacks a form, or its
\* form.sections is not an array, getForm fails; the page shows the failure
\* as its error, has called getForm once, holds no form and does not render
\* DynamicForm.
C23_MalformedResponseRejected ==
    (page.stage = "settled" /\ Malformed(page.response)) =>
        /\ getForm(page.response).threw
        /\ page.error = "Failed to fetch form: Invalid form structure received from API."
        /\ ~page.isLoading
        /\ page.fetches = 1
        /\ page.formStructure.isNull
        /\ "Alert" \in Rendered(page, session)
        /\ "DynamicForm" \notin Rendered(page, session)

C23_Witness ==
    /\ page.stage = "settled"
    /\ page.response.form = "object"
    /\ page.response.sections = "string"
    /\ "Alert" \in Rendered(page, session)

\* C26: whenever the page renders DynamicForm, the descriptor it hands to it
\* has at least one section.
C26_EngineSectionsNonEmpty ==
    "DynamicForm" \in Rendered(page, session) =>
        Len(page.formStructure.sections) > 0

\* a step in which a suspended login onSubmit completes
LoginSettleStep == login.call # <<>> /\ login'.call = <<>>

\* C30: the stored roll number changes only in the step that completes a
\* login whose createUser resolved true, and that step navigates only then,
\* to the form page, storing the submitted roll number; when createUser
\* threw or resolved false the step leaves the stored roll number and the
\* route as they were, sets the error and clears the loading flag.
C30_LoginStoresOnlyAfterSuccess ==
    [][ /\ session' # session =>
              (LoginSettleStep /\ login'.outcome = "true")
        /\ (LoginSettleStep /\ route' # route) =>
              /\ login'.outcome = "true"
              /\ route' = "/form"
              /\ session' = Head(login.call).rollNumber
        /\ (LoginSettleStep /\ login'.outcome \in {"false", "threw"}) =>
              /\ session' = session
              /\ route' = route
              /\ login'.error # ""
              /\ ~login'.isLoading ]_vars

C30_Witness ==
    /\ login.outcome = "false"
    /\ login.error = "Registration failed. Please try again."
    /\ ~login.isLoading
    /\ session = NoRollNumber
    /\ route = "/"

\* C31: once the effect of a form page mounted without a stored roll number
\* has run, the page has made no getForm call and holds no form, does not
\* render DynamicForm, shows the error 'You must log in first.' and has its
\* redirect to the login page scheduled.
C31_NoRollNumberNoFetch ==
    (route = "/form" /\ session = NoRollNumber /\ page.stage # "mounted") =>
        /\ page.stage = "redirecting"
        /\ page.fetches = 0
        /\ page.response = NoResponse
        /\ page.formStructure.isNull
        /\ page.error = "You must log in first."
        /\ "Alert" \in Rendered(page, session)
        /\ "DynamicForm" \notin Rendered(page, session)

C31_Witness ==
    /\ route = "/form"
    /\ session = NoRollNumber
    /\ page.stage = "redirecting"
    /\ page.error = "You must log in first."

\* C32: on the form page, whenever error is set isLoading is false, the
\* skeleton and the alert are never rendered together, and a settled page
\* renders exactly one of skeleton, alert and DynamicForm.
C32_SkeletonAndAlertExclusive ==
    route = "/form" =>
        /\ page.error # "" => ~page.isLoading
        /\ ~({"Skeleton", "Alert"} \subseteq Rendered(page, session))
        /\ page.stage = "settled" =>
              Cardinality(Rendered(page, session)
                          \cap {"Skeleton", "Alert", "DynamicForm"}) = 1

====
